---- MODULE Spec2Model ----
(***************************************************************************)
(* Model of the /api/process-audio request handler of src/app.py: one      *)
(* request is taken through storage upload, transcription, extraction,     *)
(* audit logging, validation and rendering.                                *)
(*                                                                         *)
(* Text is a sequence of characters; a run of characters that contains no  *)
(* character the code or the JSON grammar looks at is kept as one element  *)
(* (such as "rent" or "json").  A JSON value is a record [t, v] whose tag  *)
(* t says how to read v.                                                   *)
(***************************************************************************)
EXTENDS Integers, Sequences, FiniteSets, TLC

\* ------------------------------------------------------------------------
\* Bounds of the model
\* ------------------------------------------------------------------------

\* longest array the extraction model is taken to return
MaxRecords == 2

\* ------------------------------------------------------------------------
\* JSON values as Python holds them after json.loads
\* ------------------------------------------------------------------------

None == [t |-> "null", v |-> <<>>]
Str(s) == [t |-> "str", v |-> s]
Num(n) == [t |-> "num", v |-> <<n>>]
List(xs) == [t |-> "list", v |-> xs]
\* a dict keeps its items in insertion order: a sequence of [k, w] pairs
Dict(items) == [t |-> "dict", v |-> items]
Item(key, val) == [k |-> key, w |-> val]

IsList(x) == x.t = "list"
IsDict(x) == x.t = "dict"

Quote == "\""
\* the backtick character (U+0060), written by name
Tick == "BACKTICK"
\* the whitespace json.loads skips
Whitespace == {" ", "\n"}
\* the whitespace str.strip() removes: every character for which isspace() holds,
\* the form feed among them, which is no JSON whitespace
StripWhitespace == Whitespace \cup {"\f"}
NumberLexemes == {"0", "5", "500"}

Backslash == "\\"

\* F applied to the value of x: x is worked out once, however often F uses it
Bind(x, F(_)) == CHOOSE r \in {F(v) : v \in {x}} : TRUE

\* the escapes json.dumps writes inside a string
EscapeChar(c) ==
  CASE c = Quote     -> <<Backslash, Quote>>
    [] c = Backslash -> <<Backslash, Backslash>>
    [] c = "\n"      -> <<Backslash, "n">>
    [] c = "\f"      -> <<Backslash, "f">>
    [] OTHER         -> <<c>>
\* every character of s replaced by what EscapeChar writes for it
RECURSIVE Escape(_)
Escape(s) ==
  Bind(s, LAMBDA v :
    IF Len(v) = 0 THEN <<>>
    ELSE IF Len(v) = 1 THEN EscapeChar(v[1])
    ELSE Escape(SubSeq(v, 1, Len(v) \div 2)) \o Escape(SubSeq(v, Len(v) \div 2 + 1, Len(v))))

\* json.dumps with its default separators (", " and ": ")
RECURSIVE Dumps(_)
RECURSIVE DumpsJoin(_, _)
DumpsJoin(parts, i) ==
  IF i > Len(parts) THEN <<>>
  ELSE (IF i > 1 THEN <<",", " ">> ELSE <<>>) \o parts[i] \o DumpsJoin(parts, i + 1)
Dumps(x) ==
  CASE x.t = "null" -> <<"null">>
    [] x.t = "str"  -> <<Quote>> \o Escape(x.v) \o <<Quote>>
    [] x.t = "num"  -> x.v
    [] x.t = "list" -> <<"[">> \o DumpsJoin([i \in 1..Len(x.v) |-> Dumps(x.v[i])], 1) \o <<"]">>
    [] x.t = "dict" -> <<"{">>
                        \o DumpsJoin([i \in 1..Len(x.v) |->
                              <<Quote>> \o Escape(x.v[i].k) \o <<Quote, ":", " ">> \o Dumps(x.v[i].w)], 1)
                        \o <<"}">>

\* json.loads: a recursive-descent reading of the text.  Every Parse operator
\* returns [ok, val, pos]: pos is the index of the first character not consumed.
Fail == [ok |-> FALSE, val |-> None, pos |-> 0]
Got(val, pos) == [ok |-> TRUE, val |-> val, pos |-> pos]

RECURSIVE SkipWs(_, _)
SkipWs(text, i) ==
  IF i <= Len(text) /\ text[i] \in Whitespace THEN SkipWs(text, i + 1) ELSE i

\* the character an escape stands for (<<>>: no escape json.loads knows)
Unescaped(c) ==
  CASE c = Quote     -> <<Quote>>
    [] c = Backslash -> <<Backslash>>
    [] c = "n"       -> <<"\n">>
    [] c = "f"       -> <<"\f">>
    [] OTHER         -> <<>>

\* the number of backslashes that stand directly before position j, counted
\* from the string's first character i
BackslashesBefore(text, i, j) ==
  Cardinality({k \in i..(j - 1) : \A m \in k..(j - 1) : text[m] = Backslash})

\* the content of a string with its escapes replaced, as [ok, val]: a control
\* character written raw and an unknown escape fail.  A long content is read
\* in two parts, divided where no escape is cut in two.
RECURSIVE Unescape(_)
Unescape(s) ==
  Bind(s, LAMBDA v :
    IF Len(v) = 0 THEN [ok |-> TRUE, val |-> <<>>]
    ELSE IF Len(v) = 1
    THEN [ok |-> v[1] \notin {Backslash, "\n", "\f"}, val |-> v]
    ELSE IF Len(v) = 2 /\ v[1] = Backslash
    THEN [ok |-> Unescaped(v[2]) # <<>>, val |-> Unescaped(v[2])]
    ELSE Bind(IF BackslashesBefore(v, 1, Len(v) \div 2 + 1) % 2 = 1
              THEN Len(v) \div 2 + 1 ELSE Len(v) \div 2, LAMBDA cut :
         Bind(Unescape(SubSeq(v, 1, cut)), LAMBDA left :
         Bind(Unescape(SubSeq(v, cut + 1, Len(v))), LAMBDA right :
           [ok |-> left.ok /\ right.ok, val |-> left.val \o right.val]))))

\* the string ends at the first quote that is not escaped; a missing closing
\* quote fails
ParseString(text, i) ==
  IF i <= Len(text) /\ text[i] = Quote
  THEN Bind({j \in (i + 1)..Len(text) :
               text[j] = Quote /\ BackslashesBefore(text, i + 1, j) % 2 = 0}, LAMBDA closing :
         IF closing = {} THEN Fail
         ELSE Bind(CHOOSE j \in closing : \A m \in closing : j <= m, LAMBDA end :
              Bind(Unescape(SubSeq(text, i + 1, end - 1)), LAMBDA content :
                IF content.ok THEN Got(content.val, end + 1) ELSE Fail)))
  ELSE Fail

RECURSIVE ParseValue(_, _)
RECURSIVE ParseElements(_, _, _)
RECURSIVE ParseMembers(_, _, _)

\* a later occurrence of a key replaces the value at the key's first position
PutItem(items, key, val) ==
  IF \E n \in 1..Len(items) : items[n].k = key
  THEN [n \in 1..Len(items) |-> IF items[n].k = key THEN Item(key, val) ELSE items[n]]
  ELSE Append(items, Item(key, val))

\* i is at the start of an element; acc holds the elements read so far
ParseElements(text, i, acc) ==
  Bind(ParseValue(text, i), LAMBDA e :
    IF ~e.ok THEN Fail
    ELSE Bind(SkipWs(text, e.pos), LAMBDA j :
           IF j > Len(text) THEN Fail
           ELSE IF text[j] = "]" THEN Got(List(Append(acc, e.val)), j + 1)
           ELSE IF text[j] = "," THEN ParseElements(text, j + 1, Append(acc, e.val))
           ELSE Fail))

\* i is at the start of a "key": value member; acc holds the items read so far
ParseMembers(text, i, acc) ==
  Bind(ParseString(text, SkipWs(text, i)), LAMBDA key :
    IF ~key.ok THEN Fail
    ELSE Bind(SkipWs(text, key.pos), LAMBDA c :
           IF c > Len(text) \/ text[c] # ":" THEN Fail
           ELSE Bind(ParseValue(text, c + 1), LAMBDA e :
                  IF ~e.ok THEN Fail
                  ELSE Bind(SkipWs(text, e.pos), LAMBDA j :
                       Bind(PutItem(acc, key.val, e.val), LAMBDA items :
                         IF j > Len(text) THEN Fail
                         ELSE IF text[j] = "}" THEN Got(Dict(items), j + 1)
                         ELSE IF text[j] = "," THEN ParseMembers(text, j + 1, items)
                         ELSE Fail)))))

ParseValue(text, i0) ==
  Bind(SkipWs(text, i0), LAMBDA i :
    IF i > Len(text) THEN Fail
    ELSE IF text[i] = Quote
         THEN Bind(ParseString(text, i), LAMBDA s :
                IF s.ok THEN Got(Str(s.val), s.pos) ELSE Fail)
    ELSE IF text[i] \in NumberLexemes THEN Got(Num(text[i]), i + 1)
    ELSE IF text[i] = "null" THEN Got(None, i + 1)
    ELSE IF text[i] = "["
         THEN Bind(SkipWs(text, i + 1), LAMBDA j :
                IF j <= Len(text) /\ text[j] = "]" THEN Got(List(<<>>), j + 1)
                ELSE ParseElements(text, j, <<>>))
    ELSE IF text[i] = "{"
         THEN Bind(SkipWs(text, i + 1), LAMBDA j :
                IF j <= Len(text) /\ text[j] = "}" THEN Got(Dict(<<>>), j + 1)
                ELSE ParseMembers(text, j, <<>>))
    ELSE Fail)

\* json.loads(text): the whole text must be one value, whitespace aside
Loads(text) ==
  Bind(ParseValue(text, 1), LAMBDA r :
    IF r.ok /\ SkipWs(text, r.pos) > Len(text) THEN r ELSE Fail)

\* ------------------------------------------------------------------------
\* String operations of the extraction step
\* ------------------------------------------------------------------------

\* str.strip(): whitespace removed at both ends only
RECURSIVE LStrip(_)
LStrip(text) ==
  IF text # <<>> /\ Head(text) \in StripWhitespace THEN LStrip(Tail(text)) ELSE text
RECURSIVE RStrip(_)
RStrip(text) ==
  IF text # <<>> /\ text[Len(text)] \in StripWhitespace
  THEN RStrip(SubSeq(text, 1, Len(text) - 1)) ELSE text
Strip(text) == RStrip(LStrip(text))

StartsWith(text, pat) ==
  Len(pat) <= Len(text) /\ SubSeq(text, 1, Len(pat)) = pat

\* str.replace(pat, ""): every occurrence found scanning left to right is removed
RECURSIVE Remove(_, _)
Remove(text, pat) ==
  IF text = <<>> THEN <<>>
  ELSE IF StartsWith(text, pat) THEN Remove(SubSeq(text, Len(pat) + 1, Len(text)), pat)
  ELSE <<Head(text)>> \o Remove(Tail(text), pat)

Fence == <<Tick, Tick, Tick>>
FenceJson == Fence \o <<"json">>

\* response.text.strip().replace("```json", "").replace("```", "")
NormalizeExtraction(text) == Remove(Remove(Strip(text), FenceJson), Fence)

\* ------------------------------------------------------------------------
\* The worksheet
\* ------------------------------------------------------------------------

\* A workbook: whether openpyxl.Workbook() was called, the title of its active
\* sheet, and the cells that were assigned, as a function from coordinate to value.
NoWorkbook == [built |-> FALSE, title |-> <<>>, cells |-> <<>>]
NewWorkbook == [built |-> TRUE, title |-> <<"Sheet">>, cells |-> <<>>]

ColumnLetters == <<"A", "B", "C", "D", "E", "F">>
RowNumbers == <<"1", "2", "3", "4", "5", "6", "7", "8", "9">>
ToSet(seq) == {seq[n] : n \in 1..Len(seq)}

\* openpyxl accepts a cell key that is a column letter followed by a row number
IsCoordinate(key) ==
  Len(key) = 2 /\ key[1] \in ToSet(ColumnLetters) /\ key[2] \in ToSet(RowNumbers)

\* f"{{get_column_letter(col_idx)}}1": the doubled braces are the f-string escape
\* for a literal brace, so no expression is substituted and the key is this text
HeaderCellKey(col_idx) == <<"{", "get_column_letter(col_idx)", "}", "1">>
\* f"{{get_column_letter(col_idx)}}{{row_idx}}"
DataCellKey(col_idx, row_idx) ==
  <<"{", "get_column_letter(col_idx)", "}", "{", "row_idx", "}">>

\* Results of a step that may raise: [ok, ws, err]
Raised(err) == [ok |-> FALSE, ws |-> <<>>, err |-> err]
Wrote(cells) == [ok |-> TRUE, ws |-> cells, err |-> <<>>]

\* ws[key] = value
SetCell(cells, key, value) ==
  IF ~IsCoordinate(key) THEN Raised(<<"ValueError: ">> \o key \o <<" is not a valid coordinate or range">>)
  ELSE IF IsDict(value) THEN Raised(<<"ValueError: Cannot convert to Excel">>)
  ELSE Wrote([c \in DOMAIN cells \cup {key} |-> IF c = key THEN value ELSE cells[c]])

\* list(data[0].keys())
Keys(record) == [n \in 1..Len(record.v) |-> record.v[n].k]
\* row_data.get(header)
Get(record, key) ==
  IF \E n \in 1..Len(record.v) : record.v[n].k = key
  THEN record.v[CHOOSE n \in 1..Len(record.v) : record.v[n].k = key].w
  ELSE None

\* for col_idx, header in enumerate(headers, 1): ws[...1] = header
RECURSIVE WriteHeaders(_, _, _)
WriteHeaders(cells, headers, col_idx) ==
  IF col_idx > Len(headers) THEN Wrote(cells)
  ELSE LET r == SetCell(cells, HeaderCellKey(col_idx), Str(headers[col_idx]))
       IN IF r.ok THEN WriteHeaders(r.ws, headers, col_idx + 1) ELSE r

\* the inner loop over the headers for one row_data
RECURSIVE WriteRow(_, _, _, _, _)
WriteRow(cells, headers, row_data, row_idx, col_idx) ==
  IF col_idx > Len(headers) THEN Wrote(cells)
  ELSE IF ~IsDict(row_data) THEN Raised(<<"AttributeError: object has no attribute 'get'">>)
  ELSE LET got == Get(row_data, headers[col_idx])
           cell_value == IF IsList(got) THEN Str(Dumps(got)) ELSE got
           r == SetCell(cells, DataCellKey(col_idx, row_idx), cell_value)
       IN IF r.ok THEN WriteRow(r.ws, headers, row_data, row_idx, col_idx + 1) ELSE r

\* for row_idx, row_data in enumerate(data, 2)
RECURSIVE WriteRows(_, _, _, _)
WriteRows(cells, headers, rows, n) ==
  IF n > Len(rows) THEN Wrote(cells)
  ELSE LET r == WriteRow(cells, headers, rows[n], n + 1, 1)
       IN IF r.ok THEN WriteRows(r.ws, headers, rows, n + 1) ELSE r

\* Python's "not x" for a JSON value
Falsy(x) == x \in {None, Str(<<>>), Num("0"), List(<<>>), Dict(<<>>)}

\* the else branch of step 5: headers from the first record, then every row
FillRows(data) ==
  IF ~IsList(data) THEN Raised(<<"data[0] raises">>)
  ELSE IF ~IsDict(data.v[1]) THEN Raised(<<"AttributeError: object has no attribute 'keys'">>)
  ELSE LET headers == Keys(data.v[1])
           h == WriteHeaders(<<>>, headers, 1)
       IN IF h.ok THEN WriteRows(h.ws, headers, data.v, 1) ELSE h

\* mutant of FillSheet: the empty list is given no cell of its own
FillSheet_NoEmptyNotice(data) ==
  IF Falsy(data) THEN Wrote(<<>>) ELSE FillRows(data)

\* the body of step 5 after the workbook is created
FillSheet(data) ==
  IF Falsy(data) THEN SetCell(<<>>, <<"A", "1">>, Str(<<"No data extracted.">>))
  ELSE FillRows(data)

\* ------------------------------------------------------------------------
\* Template table and the inputs a request can bring
\* ------------------------------------------------------------------------

TEMPLATE_SCHEMAS ==
  [template1 |-> [name |-> "Import Receipts",
                  schema |-> <<"Payment Type", "Society Bank Name/Bank code", "Cheque/Ref No",
                               "Tower No", "Flat No", "Bill Head", "Amount", "Transaction Date",
                               "Comments", "Meter No", "Cheque Issuer Bank", "Cheque Date">>],
   template2 |-> [name |-> "Vendor Bill Upload",
                  schema |-> <<"Bill Number", "Bill Date", "Vendor Code", "Due Date", "Narration",
                               "CGST Amount", "SGST Amount", "IGST Amount", "TDS Amount",
                               "expenses">>],
   template3 |-> [name |-> "Default / Not Specified",
                  schema |-> <<"description", "amount">>]]

\* mutant of ResolveSchema: .get(template_name) with no default
ResolveSchema_NoDefault(template_name) ==
  IF template_name \in DOMAIN TEMPLATE_SCHEMAS
  THEN TEMPLATE_SCHEMAS[template_name]
  ELSE [name |-> "", schema |-> <<>>]

\* TEMPLATE_SCHEMAS.get(template_name, TEMPLATE_SCHEMAS["template3"])
ResolveSchema(template_name) ==
  IF template_name \in DOMAIN TEMPLATE_SCHEMAS
  THEN TEMPLATE_SCHEMAS[template_name]
  ELSE TEMPLATE_SCHEMAS["template3"]

\* template ids a form can carry: the registered ones and one that is not
\* (ids are taken to be text that is valid in a sheet title)
FormTemplates == {"template1", "template2", "template3", "template9"}
\* audio payloads
AudioPayloads == {<<"a1", "a2">>, <<"b1">>}
\* a form with both fields, or one that lacks a field
Forms ==
  [complete : {TRUE}, template : FormTemplates, audio : AudioPayloads]
    \cup {[complete |-> FALSE, template |-> "", audio |-> <<>>]}

\* what the transcription prompt can return as response.text
Transcripts == {<<"rent five hundred">>, <<>>}

\* records the extraction model can put in its array
Rent == Dict(<<Item(<<"description">>, Str(<<"rent">>)), Item(<<"amount">>, Num("500"))>>)
Tea == Dict(<<Item(<<"description">>, Str(<<"tea">>))>>)
Bill == Dict(<<Item(<<"expenses">>,
                    List(<<Dict(<<Item(<<"expense_code">>, Str(<<"E">>)),
                                  Item(<<"expense_amount">>, Num("5"))>>)>>))>>)
Elements == {Rent, Tea, Bill, Dict(<<>>), Num("5")}

RECURSIVE SeqsUpTo(_, _)
SeqsUpTo(S, n) ==
  IF n = 0 THEN {<<>>}
  ELSE LET shorter == SeqsUpTo(S, n - 1)
       IN shorter \cup {Append(q, x) : q \in shorter, x \in S}

\* values the extraction model can answer with: arrays, and values that are no array
AnswerValues ==
  {List(q) : q \in SeqsUpTo(Elements, MaxRecords)}
    \cup {Rent, Num("5"), Str(<<"rent">>),
          List(<<Dict(<<Item(<<"description">>, Str(Fence))>>)>>)}

Fenced(text) == FenceJson \o <<"\n">> \o text \o <<"\n">> \o Fence

\* texts the extraction prompt can return: a value as JSON, bare or fenced,
\* and texts that are not JSON
ModelResponses ==
  {Dumps(x) : x \in AnswerValues}
    \cup {Fenced(Dumps(x)) : x \in AnswerValues}
    \cup {<<>>, <<"Sorry, I cannot help.">>, <<"[", "{">>, <<" ", "[", "]", "\n">>,
          <<"\f", "[", "]">>, Fenced(<<"\f", "[", "]">>)}

\* how an external call can end
PostOutcomes == {"ok", "network failure", "bad status"}
CallOutcomes == {"ok", "raises"}

\* mutant of NoText: the check of response.text is left out
NoText_NotChecked(text) == FALSE

\* if not response.text
NoText(text) == text = <<>>

\* mutant of PostSucceeded: raise_for_status() is left out, so only a POST that
\* did not return stops the request
PostSucceeded_NoStatusCheck(outcome) == outcome # "network failure"

\* requests.post(...) followed by raise_for_status(): the code goes on only when
\* the POST returned and its status is a success
PostSucceeded(outcome) == outcome = "ok"

\* mutant of StageAfter: the blob-storage POST is made again after it succeeded
StageAfter_StoresAgain(stage) ==
  CASE stage = "receive"    -> "store"
    [] stage = "store"      -> "store"
    [] stage = "upload"     -> "transcribe"
    [] stage = "transcribe" -> "delete"
    [] stage = "delete"     -> "extract"
    [] stage = "extract"    -> "log"
    [] stage = "log"        -> "validate"
    [] stage = "validate"   -> "render"

\* mutant of StageAfter: the answer is parsed and checked before it is logged
StageAfter_ValidateBeforeLog(stage) ==
  CASE stage = "receive"    -> "store"
    [] stage = "store"      -> "upload"
    [] stage = "upload"     -> "transcribe"
    [] stage = "transcribe" -> "delete"
    [] stage = "delete"     -> "extract"
    [] stage = "extract"    -> "validate"
    [] stage = "validate"   -> "log"
    [] stage = "log"        -> "render"

\* mutant of StageAfter: after the log-sink POST the handler waits for something
\* that is no step of its own
StageAfter_WaitsAfterLog(stage) ==
  CASE stage = "receive"    -> "store"
    [] stage = "store"      -> "upload"
    [] stage = "upload"     -> "transcribe"
    [] stage = "transcribe" -> "delete"
    [] stage = "delete"     -> "extract"
    [] stage = "extract"    -> "log"
    [] stage = "log"        -> "waiting"
    [] stage = "validate"   -> "render"

\* The order of the steps of process_audio, each named by what it is about to do
StageAfter(stage) ==
  CASE stage = "receive"    -> "store"
    [] stage = "store"      -> "upload"
    [] stage = "upload"     -> "transcribe"
    [] stage = "transcribe" -> "delete"
    [] stage = "delete"     -> "extract"
    [] stage = "extract"    -> "log"
    [] stage = "log"        -> "validate"
    [] stage = "validate"   -> "render"

\* mutant of ParseExtraction: no inner except, so the exception's own message
\* is what the outer handler answers with
ParseExtraction_NoInnerHandler(text) ==
  LET parsed == Loads(text)
  IN IF ~parsed.ok
     THEN [ok |-> FALSE, data |-> None, err |-> <<"JSONDecodeError">>]
     ELSE IF ~IsList(parsed.val)
     THEN [ok |-> FALSE, data |-> None, err |-> <<"Gemini did not return a list.">>]
     ELSE [ok |-> TRUE, data |-> parsed.val, err |-> <<>>]

\* mutant of ParseExtraction: the isinstance(data, list) check is left out
ParseExtraction_NoListCheck(text) ==
  LET parsed == Loads(text)
  IN IF ~parsed.ok
     THEN [ok |-> FALSE, data |-> None,
           err |-> <<"Could not understand AI output: ", "JSONDecodeError">>]
     ELSE [ok |-> TRUE, data |-> parsed.val, err |-> <<>>]

\* try: data = json.loads(extracted_json_text); if not isinstance(data, list): raise
\* except Exception as e: the error body "Could not understand AI output: {e}"
ParseExtraction(text) ==
  LET parsed == Loads(text)
  IN IF ~parsed.ok
     THEN [ok |-> FALSE, data |-> None,
           err |-> <<"Could not understand AI output: ", "JSONDecodeError">>]
     ELSE IF ~IsList(parsed.val)
     THEN [ok |-> FALSE, data |-> None,
           err |-> <<"Could not understand AI output: ", "Gemini did not return a list.">>]
     ELSE [ok |-> TRUE, data |-> parsed.val, err |-> <<>>]

\* ------------------------------------------------------------------------
\* State of one request
\* ------------------------------------------------------------------------

VARIABLES
  pc,                  \* where process_audio stands: the call it is about to make
  template_name,       \* request.form['template']
  audio_file,          \* request.files['audio']: its bytes and read position
  r_audio_data,        \* body of the blob-storage POST
  uploaded_audio,      \* bytes handed to genai.upload_file
  response_text,       \* response.text of the transcription prompt
  transcription_text,
  schema_info,
  prompt,              \* what the extraction prompt is built from
  extraction_text,     \* response.text of the extraction prompt
  extracted_json_text,
  log_data,            \* the record for the log sink
  r_log_data,          \* body of the log-sink POST
  data,                \* json.loads(extracted_json_text) once it is known to be a list
  wb,                  \* the workbook
  reply,               \* what the handler returns
  error_log,           \* the records written with logging.error, in order
  trace                \* external calls attempted and local stages run, each with
                       \* how it ended, in order

vars == <<pc, template_name, audio_file, r_audio_data, uploaded_audio, response_text,
          transcription_text, schema_info, prompt, extraction_text, extracted_json_text,
          log_data, r_log_data, data, wb, reply, error_log, trace>>

NoReply == [status |-> 0, error |-> <<>>, file |-> NoWorkbook]
\* jsonify({"error": ...}), 500
ErrorReply(message) == [status |-> 500, error |-> message, file |-> NoWorkbook]
\* send_file(excel_in_memory, ...)
FileReply(book) == [status |-> 200, error |-> <<>>, file |-> book]

NoSchema == [name |-> "", schema |-> <<>>]
NoPrompt == [name |-> "", schema |-> <<>>, transcription |-> <<>>]
NoLogData == [template |-> <<>>, transcription |-> <<>>, extractedData |-> <<>>]

\* mutant of LogRecord: the template is tagged with its id alone
LogRecord_TemplateIdOnly(template, schema, transcription, extracted) ==
  [template |-> <<template>>, transcription |-> transcription, extractedData |-> extracted]

\* log_data: the template tag, the transcript and the extracted text
LogRecord(template, schema, transcription, extracted) ==
  [template |-> <<template, " (", schema.name, ")">>,
   transcription |-> transcription,
   extractedData |-> extracted]

\* log_data as the dict json.dumps is given: three string values
LogDict(log) ==
  Dict(<<Item(<<"template">>, Str(log.template)),
         Item(<<"transcription">>, Str(log.transcription)),
         Item(<<"extractedData">>, Str(log.extractedData))>>)

\* mutant of Seek0: the read position is left where it is
Seek0_Missing(f) == f

\* audio_file.seek(0)
Seek0(f) == [f EXCEPT !.pos = 0]
\* audio_file.read(): the bytes from the read position to the end
Read(f) == SubSeq(f.bytes, f.pos + 1, Len(f.bytes))
AfterRead(f) == [f EXCEPT !.pos = Len(f.bytes)]

Init ==
  /\ pc = "receive"
  /\ template_name = ""
  /\ audio_file = [bytes |-> <<>>, pos |-> 0]
  /\ r_audio_data = <<>>
  /\ uploaded_audio = <<>>
  /\ response_text = <<>>
  /\ transcription_text = <<>>
  /\ schema_info = NoSchema
  /\ prompt = NoPrompt
  /\ extraction_text = <<>>
  /\ extracted_json_text = <<>>
  /\ log_data = NoLogData
  /\ r_log_data = <<>>
  /\ data = None
  /\ wb = NoWorkbook
  /\ reply = NoReply
  /\ error_log = <<>>
  /\ trace = <<>>

Ev(name, outcome) == [ev |-> name, out |-> outcome]

\* a step ended and the handler goes on to the next one
GoOn(name, outcome) ==
  /\ pc' = StageAfter(pc)
  /\ trace' = Append(trace, Ev(name, outcome))
  /\ UNCHANGED <<reply, error_log>>

\* the handler returns: send_file(...) at the end, or one of the two early
\* returns of an error body; logged are the logging.error records written first
Respond(r, events, logged) ==
  /\ reply' = r
  /\ error_log' = error_log \o logged
  /\ pc' = "done"
  /\ trace' = trace \o events \o <<Ev("respond", "ok")>>

\* except Exception as e: logging.error(f"Error processing audio: {e}");
\* return jsonify({"error": str(e)}), 500
Caught(message, events) ==
  Respond(ErrorReply(message), events, <<<<"Error processing audio: ">> \o message>>)

\* request.form['template'], request.files['audio']
Receive ==
  /\ pc = "receive"
  /\ \E form \in Forms :
       IF form.complete
       THEN /\ template_name' = form.template
            /\ audio_file' = [bytes |-> form.audio, pos |-> 0]
            /\ pc' = StageAfter(pc)
            /\ UNCHANGED <<reply, error_log, trace>>
       ELSE /\ Caught(<<"400 Bad Request: KeyError">>, <<>>)
            /\ UNCHANGED <<template_name, audio_file>>
  /\ UNCHANGED <<r_audio_data, uploaded_audio, response_text, transcription_text,
                 schema_info, prompt, extraction_text, extracted_json_text,
                 log_data, r_log_data, data, wb>>

\* step 1: seek(0), requests.post(APPS_SCRIPT_URL_AUDIO, data=audio_file.read()),
\* raise_for_status(), seek(0)
StoreAudio ==
  /\ pc = "store"
  /\ r_audio_data' = Read(Seek0(audio_file))
  /\ \E outcome \in PostOutcomes :
       IF PostSucceeded(outcome)
       THEN /\ audio_file' = Seek0(AfterRead(Seek0(audio_file)))
            /\ GoOn("storage_post", outcome)
       ELSE /\ audio_file' = AfterRead(Seek0(audio_file))
            /\ Caught(<<"saveAudio: ", outcome>>, <<Ev("storage_post", outcome)>>)
  /\ UNCHANGED <<template_name, uploaded_audio, response_text, transcription_text,
                 schema_info, prompt, extraction_text, extracted_json_text,
                 log_data, r_log_data, data, wb>>

\* io.BytesIO(audio_file.read()), genai.upload_file(...)
UploadAudio ==
  /\ pc = "upload"
  /\ uploaded_audio' = Read(audio_file)
  /\ audio_file' = AfterRead(audio_file)
  /\ \E outcome \in CallOutcomes :
       IF outcome = "ok"
       THEN GoOn("provider_upload", outcome)
       ELSE Caught(<<"upload_file: ", outcome>>, <<Ev("provider_upload", outcome)>>)
  /\ UNCHANGED <<template_name, r_audio_data, response_text, transcription_text,
                 schema_info, prompt, extraction_text, extracted_json_text,
                 log_data, r_log_data, data, wb>>

\* gemini_model.generate_content([prompt, uploaded_audio])
Transcribe ==
  /\ pc = "transcribe"
  /\ \/ \E text \in Transcripts :
          /\ response_text' = text
          /\ GoOn("transcribe_prompt", "ok")
     \/ /\ Caught(<<"generate_content: ", "raises">>, <<Ev("transcribe_prompt", "raises")>>)
        /\ UNCHANGED response_text
  /\ UNCHANGED <<template_name, audio_file, r_audio_data, uploaded_audio,
                 transcription_text, schema_info, prompt, extraction_text,
                 extracted_json_text,
                 log_data, r_log_data, data, wb>>

\* genai.delete_file(uploaded_audio.name), the check of response.text, and the
\* building of the extraction prompt from the resolved schema
DeleteUpload ==
  /\ pc = "delete"
  /\ \E outcome \in CallOutcomes :
       IF outcome # "ok"
       THEN /\ Caught(<<"delete_file: ", outcome>>, <<Ev("provider_delete", outcome)>>)
            /\ UNCHANGED <<transcription_text, schema_info, prompt>>
       ELSE IF NoText(response_text)
       THEN /\ Respond(ErrorReply(<<"Transcription failed: The AI returned no text.">>),
                       <<Ev("provider_delete", "ok")>>,
                       <<<<"Gemini returned an empty transcription.">>>>)
            /\ UNCHANGED <<transcription_text, schema_info, prompt>>
       ELSE /\ transcription_text' = response_text
            /\ schema_info' = ResolveSchema(template_name)
            /\ prompt' = [name |-> ResolveSchema(template_name).name,
                          schema |-> ResolveSchema(template_name).schema,
                          transcription |-> response_text]
            /\ GoOn("provider_delete", outcome)
  /\ UNCHANGED <<template_name, audio_file, r_audio_data, uploaded_audio, response_text,
                 extraction_text, extracted_json_text,
                 log_data, r_log_data, data, wb>>

\* step 3: gemini_model.generate_content(prompt), the stripping of the answer,
\* and the building of log_data
Extract ==
  /\ pc = "extract"
  /\ \/ \E text \in ModelResponses :
          /\ extraction_text' = text
          /\ extracted_json_text' = NormalizeExtraction(text)
          /\ log_data' = LogRecord(template_name, schema_info, transcription_text,
                                    NormalizeExtraction(text))
          /\ GoOn("extract_prompt", "ok")
     \/ /\ Caught(<<"generate_content: ", "raises">>, <<Ev("extract_prompt", "raises")>>)
        /\ UNCHANGED <<extraction_text, extracted_json_text, log_data>>
  /\ UNCHANGED <<template_name, audio_file, r_audio_data, uploaded_audio, response_text,
                 transcription_text, schema_info, prompt, r_log_data, data, wb>>

\* step 4: requests.post(APPS_SCRIPT_URL_LOG, data=json.dumps(log_data)),
\* raise_for_status()
LogData ==
  /\ pc = "log"
  /\ r_log_data' = Dumps(LogDict(log_data))
  /\ \E outcome \in PostOutcomes :
       IF PostSucceeded(outcome)
       THEN GoOn("log_post", outcome)
       ELSE Caught(<<"logData: ", outcome>>, <<Ev("log_post", outcome)>>)
  /\ UNCHANGED <<template_name, audio_file, r_audio_data, uploaded_audio, response_text,
                 transcription_text, schema_info, prompt, extraction_text,
                 extracted_json_text, log_data, data, wb>>

\* step 5, first part: json.loads(extracted_json_text) and isinstance(data, list)
Validate ==
  /\ pc = "validate"
  /\ \E parsed \in {ParseExtraction(extracted_json_text)} :
        IF parsed.ok
        THEN /\ data' = parsed.data
             /\ GoOn("validate", "ok")
        ELSE /\ Respond(ErrorReply(parsed.err), <<Ev("validate", "raises")>>,
                        << <<"Error parsing JSON from Gemini: ">> \o Tail(parsed.err),
                           <<"Gemini output was: ">> \o extracted_json_text >>)
             /\ UNCHANGED data
  /\ UNCHANGED <<template_name, audio_file, r_audio_data, uploaded_audio, response_text,
                 transcription_text, schema_info, prompt, extraction_text,
                 extracted_json_text,
                 log_data, r_log_data, wb>>

\* step 5, second part, and step 6: the workbook is created, titled, filled,
\* saved and sent
Render ==
  /\ pc = "render"
  /\ LET titled == [NewWorkbook EXCEPT !.title = <<"Data - ", template_name>>]
         filled == FillSheet(data)
     IN IF filled.ok
        THEN /\ wb' = [titled EXCEPT !.cells = filled.ws]
             /\ Respond(FileReply([titled EXCEPT !.cells = filled.ws]),
                        <<Ev("render", "ok")>>, <<>>)
        ELSE /\ wb' = titled
             /\ Caught(filled.err, <<Ev("render", "raises")>>)
  /\ UNCHANGED <<template_name, audio_file, r_audio_data, uploaded_audio, response_text,
                 transcription_text, schema_info, prompt, extraction_text,
                 extracted_json_text,
                 log_data, r_log_data, data>>

Next ==
  \/ Receive
  \/ StoreAudio
  \/ UploadAudio
  \/ Transcribe
  \/ DeleteUpload
  \/ Extract
  \/ LogData
  \/ Validate
  \/ Render

Spec == Init /\ [][Next]_vars

\* The handler runs on its own thread of control from its first statement to a
\* return: every external call eventually returns or raises, and nothing else
\* holds a step back, so a step that can be taken is taken.
FairSpec == Spec /\ WF_vars(Next)

\* ------------------------------------------------------------------------
\* Vocabulary of the properties
\* ------------------------------------------------------------------------

Events == [n \in 1..Len(trace) |-> trace[n].ev]
Attempted(name) == \E n \in 1..Len(trace) : trace[n].ev = name
Succeeded(name) == \E n \in 1..Len(trace) : trace[n].ev = name /\ trace[n].out = "ok"
FailedAt(name) == \E n \in 1..Len(trace) : trace[n].ev = name /\ trace[n].out # "ok"
Responded == pc = "done"

\* the stages in the order the handler's statements give them
CodeOrder ==
  <<"storage_post", "provider_upload", "transcribe_prompt", "provider_delete",
    "extract_prompt", "log_post", "validate", "render">>

\* the trace is an initial part of the given order, with the response after it
\* once the handler has returned
RunsAlong(order) ==
  LET n == Len(trace)
  IN IF n > 0 /\ trace[n].ev = "respond"
     THEN /\ n - 1 <= Len(order)
          /\ SubSeq(Events, 1, n - 1) = SubSeq(order, 1, n - 1)
     ELSE /\ n <= Len(order)
          /\ Events = SubSeq(order, 1, n)

ShapeError == <<"Could not understand AI output: ", "Gemini did not return a list.">>

\* the cell at key shows value; a blank is an unassigned cell or one holding None
CellShows(cells, key, value) ==
  IF value = None
  THEN key \notin DOMAIN cells \/ cells[key] = None
  ELSE key \in DOMAIN cells /\ cells[key] = value

\* what a cell is to hold for a field value: a list as its JSON text
Shown(value) == IF IsList(value) THEN Str(Dumps(value)) ELSE value

\* row 1 holds the first record's keys in their order, row i+1 the i-th record's
\* values under those keys, and nothing else is populated
GridMatches(cells, records) ==
  LET headers == Keys(records[1])
      cols == 1..Len(headers)
  IN /\ \A c \in cols : CellShows(cells, <<ColumnLetters[c], "1">>, Str(headers[c]))
     /\ \A i \in 1..Len(records) : \A c \in cols :
          CellShows(cells, <<ColumnLetters[c], RowNumbers[i + 1]>>,
                    Shown(Get(records[i], headers[c])))
     /\ \A key \in DOMAIN cells :
          cells[key] # None =>
            \E c \in cols : \E r \in 1..(Len(records) + 1) :
              key = <<ColumnLetters[c], RowNumbers[r]>>

AllDicts(records) == \A i \in 1..Len(records) : IsDict(records[i])
SameKeySet(records) ==
  /\ AllDicts(records)
  /\ \A i \in 1..Len(records) : ToSet(Keys(records[i])) = ToSet(Keys(records[1]))

\* the text is a JSON array all of whose elements are objects
IsArrayOfObjects(text) ==
  LET r == Loads(text)
  IN r.ok /\ IsList(r.val) /\ AllDicts(r.val.v)

\* ------------------------------------------------------------------------
\* C1  stage order
\* ------------------------------------------------------------------------

\* C1 as stated: the log-sink POST is attempted only after the extraction output
\* has passed validation, so a request whose output fails validation never
\* issues the log-sink POST.
C1_LogOnlyAfterValidation ==
  /\ Attempted("log_post") => Succeeded("validate")
  /\ FailedAt("validate") => ~Attempted("log_post")

\* C1 amended: the stages run in the order storage POST, provider upload,
\* transcription prompt, provider delete, extraction prompt, log-sink POST,
\* validation, rendering, response; validation is attempted only after the
\* log-sink POST has succeeded, and rendering only after validation has passed.
C1_StageOrder ==
  /\ RunsAlong(CodeOrder)
  /\ Attempted("validate") => Succeeded("log_post")
  /\ Attempted("render") => Succeeded("validate")

\* a request whose extraction output failed validation after its log-sink POST
C1_Witness ==
  Responded /\ Succeeded("log_post") /\ FailedAt("validate")

\* ------------------------------------------------------------------------
\* C2  a failed blob-storage POST stops the request
\* ------------------------------------------------------------------------

\* C2: if the blob-storage POST fails (network failure or non-success status),
\* no provider upload, transcription prompt, extraction prompt or log-sink POST
\* is attempted in that request, and the response is the 500 error envelope.
C2_StorageFailureStopsAll ==
  FailedAt("storage_post") =>
    /\ Responded
    /\ \A name \in {"provider_upload", "transcribe_prompt", "provider_delete",
                     "extract_prompt", "log_post"} : ~Attempted(name)
    /\ uploaded_audio = <<>> /\ prompt = NoPrompt /\ log_data = NoLogData
    /\ reply.status = 500 /\ reply.error # <<>> /\ reply.file = NoWorkbook

\* the blob-storage POST came back with a non-success status
C2_Witness ==
  Responded /\ trace[1] = Ev("storage_post", "bad status")

\* ------------------------------------------------------------------------
\* C3  the remote blob is deleted whatever the prompt call does
\* ------------------------------------------------------------------------

\* C3 as stated: in every request that uploaded the audio to the transcription
\* provider, the delete of the remote blob is issued before the response,
\* also when the transcription prompt call raises.
C3_DeleteAlwaysIssued ==
  (Responded /\ Succeeded("provider_upload")) => Attempted("provider_delete")

\* ------------------------------------------------------------------------
\* C4  200 exactly when every stage succeeded
\* ------------------------------------------------------------------------

\* C4: the response is HTTP 200 with the file if and only if every stage ran and
\* succeeded; a failure of any stage, a failed log-sink POST included, gives
\* HTTP 500 with an error message and no file, and no later stage runs.
C4_SuccessIffAllStages ==
  Responded =>
    /\ reply.status \in {200, 500}
    /\ reply.status = 200 <=>
         /\ SubSeq(Events, 1, Len(trace) - 1) = CodeOrder
         /\ \A n \in 1..Len(trace) : trace[n].out = "ok"
         /\ response_text # <<>>
    /\ reply.status = 200 => reply.file.built /\ reply.file = wb /\ reply.error = <<>>
    /\ reply.status = 500 => reply.error # <<>> /\ reply.file = NoWorkbook
    /\ \A n \in 1..Len(trace) : trace[n].out # "ok" => n = Len(trace) - 1

\* a request all of whose stages succeeded up to a log-sink POST that failed
C4_Witness ==
  /\ Responded /\ reply.status = 500
  /\ Succeeded("extract_prompt") /\ FailedAt("log_post")
  /\ IsArrayOfObjects(extracted_json_text)

\* ------------------------------------------------------------------------
\* C5  the sheet of records that share one key set
\* ------------------------------------------------------------------------

\* C5 as stated: a request that reaches rendering with a non-empty list of
\* records sharing one key set succeeds, and its sheet has row 1 equal to the
\* first record's keys in their order and row i+1 equal to the i-th record's
\* values under those keys.
C5_SharedKeysRendered ==
  (Responded /\ Succeeded("validate") /\ data.v # <<>> /\ SameKeySet(data.v)) =>
    /\ reply.status = 200
    /\ GridMatches(reply.file.cells, data.v)

\* ------------------------------------------------------------------------
\* C6  anything but an array of objects ends in the error response
\* ------------------------------------------------------------------------

\* C6 as stated: whenever the fence-stripped extraction output is anything other
\* than a JSON array all of whose elements are objects, the request ends with
\* the HTTP 500 error response and never returns a rendered file.
C6_NonObjectArrayRejected ==
  (Responded /\ Succeeded("extract_prompt") /\ ~IsArrayOfObjects(extracted_json_text)) =>
    /\ reply.status = 500
    /\ reply.file = NoWorkbook

\* ------------------------------------------------------------------------
\* C7  a map is never coerced into a record list
\* ------------------------------------------------------------------------

ExtractedIsMap ==
  /\ Succeeded("extract_prompt")
  /\ Loads(extracted_json_text).ok
  /\ IsDict(Loads(extracted_json_text).val)

\* C7 as stated: if the extraction output parses as JSON but is a map, the
\* request always terminates with the JSON-array-shape error response, no
\* workbook is built and the map is never coerced into a record list.
C7_MapAlwaysShapeError ==
  (Responded /\ ExtractedIsMap) =>
    /\ reply = ErrorReply(ShapeError)
    /\ ~wb.built
    /\ data = None

\* C7 amended: if the extraction output parses as JSON but is a map, no workbook
\* is ever built, the map is never taken as a record list, and the request ends
\* with HTTP 500: with the JSON-array-shape error when the log-sink POST
\* succeeded, and with the log-sink POST's own error when that POST failed.
C7_MapNeverRendered ==
  ExtractedIsMap =>
    /\ ~wb.built /\ data = None /\ ~Attempted("render")
    /\ Responded =>
         /\ reply.status = 500 /\ reply.file = NoWorkbook
         /\ Succeeded("log_post") => reply.error = ShapeError /\ FailedAt("validate")
         /\ FailedAt("log_post") => reply.error[1] = "logData: " /\ ~Attempted("validate")

\* a map came back, the log-sink POST went through, and validation refused it
C7_Witness ==
  Responded /\ ExtractedIsMap /\ Succeeded("log_post") /\ reply = ErrorReply(ShapeError)

\* ------------------------------------------------------------------------
\* C8  records with differing key sets
\* ------------------------------------------------------------------------

\* C8 as stated: rendering a non-empty record list whose records have differing
\* key sets never errors: the columns are the first record's keys in their
\* order, a key missing from a later record gives a blank cell, and a key
\* present only in a later record produces no column.
C8_DifferingKeysRendered ==
  (/\ Responded /\ Succeeded("validate") /\ data.v # <<>>
   /\ AllDicts(data.v) /\ ~SameKeySet(data.v)) =>
    /\ Succeeded("render")
    /\ GridMatches(wb.cells, data.v)

\* ------------------------------------------------------------------------
\* C9  the empty record list
\* ------------------------------------------------------------------------

ListFields(records) ==
  {rc \in (1..Len(records)) \X (1..Len(Keys(records[1]))) :
     IsList(Get(records[rc[1]], Keys(records[1])[rc[2]]))}

\* C10 as stated: for a record whose field value is a nested list, the rendered
\* cell holds a JSON string that, parsed back, is deep-equal to the original
\* list; the list is not expanded into additional rows or columns.
C10_NestedListRoundTrip ==
  (/\ Responded /\ Succeeded("validate") /\ data.v # <<>>
   /\ AllDicts(data.v) /\ ListFields(data.v) # {}) =>
    /\ Succeeded("render")
    /\ \A rc \in ListFields(data.v) :
         LET key == <<ColumnLetters[rc[2]], RowNumbers[rc[1] + 1]>>
         IN /\ key \in DOMAIN wb.cells
            /\ wb.cells[key].t = "str"
            /\ Loads(wb.cells[key].v).ok
            /\ Loads(wb.cells[key].v).val = Get(data.v[rc[1]], Keys(data.v[1])[rc[2]])
    /\ Cardinality(DOMAIN wb.cells) <= Len(Keys(data.v[1])) * (Len(data.v) + 1)

\* ------------------------------------------------------------------------
\* C11  fenced and unfenced answers
\* ------------------------------------------------------------------------

\* C11 as stated: for any model response content C, the response consisting of
\* C wrapped in ```json fences yields the same validation outcome as C
\* unfenced: the same record list when C is a JSON array, the same error
\* otherwise.  (C ranges over the answers the extraction prompt returned.)
C11_FencedSameAsUnfenced ==
  Succeeded("extract_prompt") =>
    ParseExtraction(NormalizeExtraction(Fenced(extraction_text)))
      = ParseExtraction(NormalizeExtraction(extraction_text))

\* ------------------------------------------------------------------------
\* C12  an empty transcription
\* ------------------------------------------------------------------------

EmptyTranscript == Succeeded("transcribe_prompt") /\ response_text = <<>>
NoTextError == <<"Transcription failed: The AI returned no text.">>
LaterStages == {"extract_prompt", "log_post", "validate", "render"}

\* C12 as stated: if the transcription prompt returns empty text, the request
\* terminates with the 'no text returned' failure (HTTP 500, "Transcription
\* failed: The AI returned no text."), and no extraction prompt, log-sink POST
\* or rendering is attempted.
C12_EmptyTextAlwaysNoTextError ==
  (Responded /\ EmptyTranscript) =>
    /\ reply = ErrorReply(NoTextError)
    /\ \A name \in LaterStages : ~Attempted(name)

\* C12 amended: if the transcription prompt returns empty text, no extraction
\* prompt, log-sink POST, validation or rendering is attempted and the request
\* ends with HTTP 500: with "Transcription failed: The AI returned no text."
\* when the delete of the remote blob returned, and with that delete's own error
\* when it raised.  The no-text message is never the error of a request in
\* which a call or stage failed.
C12_EmptyTextStops ==
  /\ EmptyTranscript =>
       /\ \A name \in LaterStages : ~Attempted(name)
       /\ transcription_text = <<>> /\ prompt = NoPrompt
       /\ Responded =>
            /\ reply.status = 500 /\ reply.file = NoWorkbook
            /\ Succeeded("provider_delete") => reply.error = NoTextError
            /\ FailedAt("provider_delete") => reply.error[1] = "delete_file: "
  /\ (Responded /\ \E n \in 1..Len(trace) : trace[n].out # "ok") => reply.error # NoTextError

\* the prompt returned nothing, the blob was deleted, the request was refused
C12_Witness ==
  /\ Responded /\ EmptyTranscript /\ Succeeded("provider_delete")
  /\ reply = ErrorReply(NoTextError)

\* ------------------------------------------------------------------------
\* C13  no call is made twice
\* ------------------------------------------------------------------------

ExternalCalls ==
  {"storage_post", "provider_upload", "transcribe_prompt", "provider_delete",
   "extract_prompt", "log_post"}
TimesIssued(name) == Cardinality({n \in 1..Len(trace) : trace[n].ev = name})

\* C13: within a request each external call (blob-storage POST, provider
\* upload, transcription prompt, provider delete, extraction prompt, log-sink
\* POST) is issued at most once, whether it succeeds or fails; a call that
\* failed is followed by the response and by nothing else.
C13_EachCallAtMostOnce ==
  /\ \A name \in ExternalCalls : TimesIssued(name) <= 1
  /\ \A n \in 1..Len(trace) :
       (trace[n].ev \in ExternalCalls /\ trace[n].out # "ok") =>
         n + 1 = Len(trace) /\ trace[n + 1].ev = "respond"

\* all six calls were issued and the last of them failed
C13_Witness ==
  /\ Responded /\ FailedAt("log_post")
  /\ \A name \in ExternalCalls : TimesIssued(name) = 1

\* ------------------------------------------------------------------------
\* C15  schema resolution
\* ------------------------------------------------------------------------

\* the handler has passed the schema lookup
SchemaResolved == Succeeded("provider_delete") /\ response_text # <<>>

\* C15: schema resolution is total: for a registered template id it gives that
\* id's schema, for an unregistered id the default schema (template3,
\* "Default / Not Specified") without raising, and the request goes on to the
\* extraction prompt, built from the resolved schema.
C15_SchemaResolutionTotal ==
  SchemaResolved =>
    /\ template_name = "template1" =>
         schema_info = TEMPLATE_SCHEMAS.template1 /\ schema_info.name = "Import Receipts"
    /\ template_name = "template2" =>
         schema_info = TEMPLATE_SCHEMAS.template2 /\ schema_info.name = "Vendor Bill Upload"
    /\ template_name \notin {"template1", "template2"} =>
         /\ schema_info = TEMPLATE_SCHEMAS.template3
         /\ schema_info.name = "Default / Not Specified"
         /\ schema_info.schema = <<"description", "amount">>
    /\ prompt = [name |-> schema_info.name, schema |-> schema_info.schema,
                 transcription |-> transcription_text]
    /\ pc = "extract" \/ Attempted("extract_prompt")

\* an unregistered template id got as far as the extraction prompt
C15_Witness ==
  /\ template_name \notin DOMAIN TEMPLATE_SCHEMAS
  /\ Succeeded("extract_prompt")
  /\ prompt.name = "Default / Not Specified"

\* ------------------------------------------------------------------------
\* C16  the error of an answer that is no JSON array
\* ------------------------------------------------------------------------

\* text occurs in message as a run of consecutive characters
Includes(message, text) ==
  \E i \in 0..(Len(message) - Len(text)) : SubSeq(message, i + 1, i + Len(text)) = text

ParseErrorPrefix == "Could not understand AI output: "

\* C16 as stated: when the extraction output fails to parse as JSON or is not
\* an array, the error with which the request terminates includes the raw
\* offending model text and is of a kind distinct from the storage,
\* transcription-empty and rendering failures.
C16_ErrorIncludesRawText ==
  (Responded /\ FailedAt("validate")) =>
    /\ reply.status = 500
    /\ Includes(reply.error, extraction_text) \/ Includes(reply.error, extracted_json_text)
    /\ reply.error[1] = ParseErrorPrefix

\* C16 amended: when validation finds that the extraction output does not parse
\* as JSON or is not an array, the request terminates with HTTP 500 and the
\* message "Could not understand AI output: " followed by the exception's
\* message, a message no other failure produces; the offending text is not
\* part of that response: the fence-stripped text is written to the error log.
C16_ParseErrorDistinctAndLogged ==
  /\ (Responded /\ FailedAt("validate")) =>
       /\ reply.status = 500 /\ reply.file = NoWorkbook
       /\ Len(reply.error) = 2 /\ reply.error[1] = ParseErrorPrefix
       /\ reply.error[2] \in {"JSONDecodeError", "Gemini did not return a list."}
       /\ extracted_json_text # <<>> => ~Includes(reply.error, extracted_json_text)
       /\ error_log # <<>>
       /\ error_log[Len(error_log)] = <<"Gemini output was: ">> \o extracted_json_text
  /\ (Responded /\ reply.status = 500 /\ ~FailedAt("validate")) =>
       reply.error[1] # ParseErrorPrefix

\* a fenced map came back and validation refused it
C16_Witness ==
  /\ Responded /\ FailedAt("validate")
  /\ extraction_text # extracted_json_text
  /\ Loads(extracted_json_text).ok

\* ------------------------------------------------------------------------
\* C17  what the log-sink POST carries
\* ------------------------------------------------------------------------

DisplayName(template) ==
  CASE template = "template1" -> "Import Receipts"
    [] template = "template2" -> "Vendor Bill Upload"
    [] OTHER                  -> "Default / Not Specified"

\* C17: whenever the log-sink POST is issued, its body is a JSON object whose
\* "transcription" is the transcript the transcription stage of this request
\* produced, whose "extractedData" is the extracted text exactly as the parser
\* is given it, and whose "template" is the template id followed by the display
\* name of the resolved schema (the default schema's name for an unregistered id).
C17_LogBodyCarriesRecord ==
  Attempted("log_post") =>
    LET body == Loads(r_log_data)
    IN /\ body.ok /\ IsDict(body.val)
       /\ Succeeded("transcribe_prompt")
       /\ Get(body.val, <<"transcription">>) = Str(response_text)
       /\ Get(body.val, <<"extractedData">>) = Str(extracted_json_text)
       /\ Succeeded("validate") => data = Loads(Get(body.val, <<"extractedData">>).v).val
       /\ Get(body.val, <<"template">>)
            = Str(<<template_name, " (", DisplayName(template_name), ")">>)

\* the log sink was sent a record of an unregistered template whose extracted
\* text holds quotes
C17_Witness ==
  /\ Succeeded("log_post")
  /\ template_name = "template9"
  /\ \E n \in 1..Len(extracted_json_text) : extracted_json_text[n] = Quote

\* ------------------------------------------------------------------------
\* C18  fence normalization and a fence inside a string value
\* ------------------------------------------------------------------------

EndsWith(text, pat) ==
  Len(pat) <= Len(text) /\ SubSeq(text, Len(text) - Len(pat) + 1, Len(text)) = pat

NoOuterFence(text) == ~StartsWith(Strip(text), Fence) /\ ~EndsWith(Strip(text), Fence)

\* C18 as stated: fence normalization removes only leading and trailing fence
\* markers: a response with no leading or trailing fence reaches the JSON parser
\* with its content unchanged apart from surrounding whitespace, even when a
\* string value inside it contains a fence.
C18_InnerFenceUntouched ==
  (Succeeded("extract_prompt") /\ NoOuterFence(extraction_text)) =>
    extracted_json_text = Strip(extraction_text)

\* ------------------------------------------------------------------------
\* C19  the two reads of the audio payload
\* ------------------------------------------------------------------------

\* C19: in every request that reaches transcription, the bytes uploaded to the
\* transcription provider are the complete audio payload, identical to the
\* bytes POSTed to blob storage: the read position is at the start before each
\* of the two reads.
C19_SameCompletePayloadTwice ==
  /\ Attempted("storage_post") => r_audio_data = audio_file.bytes
  /\ Attempted("provider_upload") =>
       /\ uploaded_audio = audio_file.bytes
       /\ uploaded_audio = r_audio_data
  /\ pc = "upload" => audio_file.pos = 0

\* a payload that is not empty was transcribed
C19_Witness ==
  /\ Succeeded("transcribe_prompt")
  /\ uploaded_audio # <<>>
  /\ uploaded_audio = r_audio_data

\* ------------------------------------------------------------------------
\* C20  every request ends in exactly one response
\* ------------------------------------------------------------------------

Responses == Cardinality({n \in 1..Len(trace) : trace[n].ev = "respond"})

\* the place of a step in the handler's text
StagePlace(stage) ==
  CASE stage = "receive"    -> 1
    [] stage = "store"      -> 2
    [] stage = "upload"     -> 3
    [] stage = "transcribe" -> 4
    [] stage = "delete"     -> 5
    [] stage = "extract"    -> 6
    [] stage = "log"        -> 7
    [] stage = "validate"   -> 8
    [] stage = "render"     -> 9
    [] stage = "done"       -> 10
    [] OTHER                -> 0

IsResponse(r) ==
  \/ r.status = 200 /\ r.file.built /\ r.error = <<>>
  \/ r.status = 500 /\ ~r.file.built /\ r.error # <<>>

\* C20: provided every external call eventually returns or raises, every
\* request eventually produces exactly one response, the rendered file or the
\* error envelope: each step goes on to a later step of the handler's text or to
\* the response, never back, and no response is followed by another.
C20_EventuallyExactlyOneResponse ==
  /\ <>[](Responded /\ Responses = 1 /\ IsResponse(reply))
  /\ [](Responses <= 1 /\ (Responses = 1 <=> Responded))
  /\ [][StagePlace(pc') > StagePlace(pc)]_vars

\* a request that went through every stage and was answered once
C20_Witness ==
  /\ Responded /\ Responses = 1
  /\ \A n \in 1..Len(CodeOrder) : Attempted(CodeOrder[n])

====
